---- MODULE Spec2Model ----
(***************************************************************************)
(* GenPyART (src/GenPyART.py): the shape-generation and canvas-state       *)
(* engine of GenerativeArtApp.  The attributes of the application object   *)
(* are the variables; every handler of the class (timer callback or        *)
(* command) is an operator from the application state before the handler   *)
(* to the state after it, and one action of the next-state relation.       *)
(* Where the class defines a method twice, the later definition (the one   *)
(* Python keeps) is the one modelled.                                      *)
(***************************************************************************)
EXTENDS Integers, Sequences, FiniteSets, TLC

VARIABLES
    paused,          \* self.paused
    frame_count,     \* self.frame_count
    draw_history,    \* self.draw_history: sequence of shape records
    meme_text_id,    \* self.meme_text_id (None or a canvas id)
    watermark_id,    \* self.watermark_id (None or a canvas id)
    CANVAS_WIDTH,    \* self.CANVAS_WIDTH
    CANVAS_HEIGHT,   \* self.CANVAS_HEIGHT
    SETTINGS,        \* self.SETTINGS
    SHAPE_TYPES,     \* self.SHAPE_TYPES
    controls,        \* the Tk variables and widgets the handlers read
    canvas,          \* the items of self.canvas, bottom of the stack first
    canvas_bg,       \* the bg option of self.canvas
    next_id,         \* the id the canvas gives to the next item it creates
    rng,             \* the state of the module-level generator of `random`
    timers,          \* the callbacks pending in root.after
    status_label,    \* the text of self.status_label
    drawn,           \* the shapes sampled by the handler that ran last
    exc,             \* the exception that left the handler that ran last, or ""
    twin             \* a second run of the program (seed determinism only)

vars == <<paused, frame_count, draw_history, meme_text_id, watermark_id,
          CANVAS_WIDTH, CANVAS_HEIGHT, SETTINGS, SHAPE_TYPES, controls,
          canvas, canvas_bg, next_id, rng, timers, status_label, drawn, exc,
          twin>>

----------------------------------------------------------------------------
(* Bounds of the model.                                                    *)

\* Number of states of the generator that stands for random's Mersenne twister.
RngMod == 31
\* The handlers that create canvas items run only while next_id <= MaxId.
MaxId == 4
\* The unseeded generator starts in one of the states 0..Seeds-1.
Seeds == 3
\* The positions the user gives the auto-clear slider are 1..MaxThreshold.
MaxThreshold == 2
\* The positions the user gives the burst-count slider are 1..MaxBurst.
MaxBurst == 2
\* The long run of ticks goes on while next_id <= MaxLongRun.
MaxLongRun == 50

(* Program constants.                                                      *)

\* None, as the value of meme_text_id and watermark_id (canvas ids start at 1).
None == 0
\* random_color(): random.randint(0, 0xFFFFFF).
COLOR_MAX == 16777215
\* draw_grid: grid_spacing.
grid_spacing == 50
\* replay_next: root.after(50, ...).
REPLAY_DELAY == 50
\* animate: frame_count % 50.
CHAOS_PERIOD == 50

\* The keys of SHAPE_TYPES in the order the dict literal gives them.
ShapeOrder == <<"circle", "line", "arc", "rectangle", "triangle">>

----------------------------------------------------------------------------
(* The random module.  The generator is a deterministic stream: a state,   *)
(* a step, and an output read from the state.  An unseeded generator       *)
(* starts in any state; random.seed(n) puts it in a state that n decides.  *)

NextRng(r) == (3 * r + 5) % RngMod

\* A word of the stream mapped onto 0..n-1, both ends included.
Scale(w, n) ==
    IF n <= RngMod THEN (w * n) \div RngMod
    ELSE (w * (n - 1)) \div (RngMod - 1)

\* random.randint(lo, hi): lo <= value <= hi; ValueError on an empty range,
\* raised before the stream is read.
randint(r, lo, hi) ==
    IF lo > hi THEN [ok |-> FALSE, val |-> 0, rng |-> r]
    ELSE [ok |-> TRUE, val |-> lo + Scale(NextRng(r), hi - lo + 1),
          rng |-> NextRng(r)]

\* random.choice(seq), seq not empty.
choice(r, seq) ==
    [ok |-> TRUE, val |-> seq[1 + Scale(NextRng(r), Len(seq))], rng |-> NextRng(r)]

Abs(n) == IF n < 0 THEN -n ELSE n

\* random.seed(n) for an int n.
SeedState(n) == Abs(n) % RngMod

----------------------------------------------------------------------------
(* The Tk canvas: a display list of items, each with the id the canvas     *)
(* gave it.  Ids count up and are never given twice.                       *)

Item(id, type, coords, color, outline, tag, text) ==
    [id |-> id, type |-> type, coords |-> coords, color |-> color,
     outline |-> outline, tag |-> tag, text |-> text]

CanvasIds(cv) == {cv[i].id : i \in 1..Len(cv)}

\* canvas.create_*(...): the new item is on top; returns s.next_id.
create(s, type, coords, color, outline, tag, text) ==
    [s EXCEPT !.canvas = Append(@, Item(s.next_id, type, coords, color,
                                        outline, tag, text)),
              !.next_id = @ + 1]

\* canvas.delete(id): nothing happens when no item has the id.
delete(s, id) ==
    LET Keep(it) == it.id # id
    IN [s EXCEPT !.canvas = SelectSeq(@, Keep)]

\* canvas.delete(tag).
delete_tag(s, tag) ==
    LET Keep(it) == it.tag # tag
    IN [s EXCEPT !.canvas = SelectSeq(@, Keep)]

\* canvas.delete("all").
delete_all(s) == [s EXCEPT !.canvas = <<>>]

\* canvas.itemconfigure(id, text=...).
itemconfigure_text(s, id, text) ==
    [s EXCEPT !.canvas =
        [i \in 1..Len(@) |-> IF @[i].id = id THEN [@[i] EXCEPT !.text = text]
                             ELSE @[i]]]

\* canvas.tag_raise(id): the item moves to the top of the display list.
tag_raise(s, id) ==
    LET Is(it) == it.id = id
        Not(it) == it.id # id
    IN [s EXCEPT !.canvas = SelectSeq(@, Not) \o SelectSeq(@, Is)]

\* canvas.coords(id) and canvas.type(id).
coords_of(s, id) ==
    LET Is(it) == it.id = id
        hit == SelectSeq(s.canvas, Is)
    IN IF hit = <<>> THEN <<>> ELSE hit[1].coords

type_of(s, id) ==
    LET Is(it) == it.id = id
        hit == SelectSeq(s.canvas, Is)
    IN IF hit = <<>> THEN "" ELSE hit[1].type

----------------------------------------------------------------------------
(* draw_shape (lines 790-884).                                             *)

\* canvas.type() of the item each shape type is drawn as.
ItemType(shape_type) ==
    CASE shape_type = "circle" -> "oval"
      [] shape_type = "line" -> "line"
      [] shape_type = "arc" -> "arc"
      [] shape_type = "rectangle" -> "rectangle"
      [] shape_type = "triangle" -> "polygon"

\* Lines 791-797: UltraRandom overwrites three settings from the stream.
UltraRandom(s) ==
    LET u1 == choice(s.rng, <<TRUE, FALSE>>)
        u2 == choice(u1.rng, <<TRUE, FALSE>>)
        u3 == choice(u2.rng, <<TRUE, FALSE>>)
        p1 == randint(u3.rng, 0, COLOR_MAX)
        p2 == randint(p1.rng, 0, COLOR_MAX)
        p3 == randint(p2.rng, 0, COLOR_MAX)
    IN IF s.controls.special_mode # "UltraRandom" THEN s
       ELSE [s EXCEPT !.SETTINGS.outline_only = u1.val,
                      !.SETTINGS.mirror_drawing = u2.val,
                      !.SETTINGS.custom_palette =
                          IF u3.val THEN <<p1.val, p2.val, p3.val>> ELSE <<>>,
                      !.rng = IF u3.val THEN p3.rng ELSE u3.rng]

\* Lines 798-799: the enabled shape types, and the type drawn.
available_shapes(s) ==
    LET Enabled(t) == s.SHAPE_TYPES[t]
    IN SelectSeq(ShapeOrder, Enabled)

shape_type_of(s) ==
    IF available_shapes(s) # <<>> THEN choice(s.rng, available_shapes(s))
    ELSE [ok |-> TRUE, val |-> "circle", rng |-> s.rng]

\* Line 802 with the upper end one too far.
sample_size_past_max(r, settings) ==
    randint(r, settings.min_shape_size, settings.max_shape_size + 1)

\* Line 802: size = random.randint(min_size, max_size).
sample_size(r, settings) ==
    randint(r, settings.min_shape_size, settings.max_shape_size)

\* Line 855 with the parity of a list counted from 1.
mirrored_from_one(coords, width) ==
    [idx \in 1..Len(coords) |->
        IF idx % 2 = 0 THEN width - coords[idx] ELSE coords[idx]]

\* Line 855: the mirrored coordinate list.
mirrored(coords, width) ==
    [idx \in 1..Len(coords) |->
        IF (idx - 1) % 2 = 0 THEN width - coords[idx] ELSE coords[idx]]

\* Lines 808-850: the geometry of the item, after type, size, anchor and colour.
geometry(r, shape_type, size, x, y, W, H) ==
    LET l1 == randint(r, 0, W)
        l2 == randint(l1.rng, 0, H)
        l3 == randint(l2.rng, 1, 5)
        a1 == randint(r, 0, 360)
        a2 == randint(a1.rng, 30, 180)
        t1 == randint(r, -size, size)
        t2 == randint(t1.rng, -size, size)
        t3 == randint(t2.rng, -size, size)
        t4 == randint(t3.rng, -size, size)
        G(ok, g, c, w, st, ex) ==
            [ok |-> ok, rng |-> g, coords |-> c, width |-> w, start |-> st,
             extent |-> ex]
    IN CASE shape_type = "circle" ->
              G(TRUE, r, <<x - size, y - size, x + size, y + size>>, 0, 0, 0)
         [] shape_type = "line" ->
              IF l1.ok /\ l2.ok
              THEN G(TRUE, l3.rng, <<x, y, l1.val, l2.val>>, l3.val, 0, 0)
              ELSE G(FALSE, IF l1.ok THEN l1.rng ELSE r, <<>>, 0, 0, 0)
         [] shape_type = "arc" ->
              G(TRUE, a2.rng, <<x, y, x + size, y + size>>, 0, a1.val, a2.val)
         [] shape_type = "rectangle" ->
              G(TRUE, r, <<x, y, x + size, y + size>>, 0, 0, 0)
         [] shape_type = "triangle" ->
              IF t1.ok
              THEN G(TRUE, t4.rng,
                     <<x, y, x + t1.val, y + t2.val, x + t3.val, y + t4.val>>,
                     0, 0, 0)
              ELSE G(FALSE, r, <<>>, 0, 0, 0)

\* Lines 851-883 with the append of the copy's handle to mirror_items left
\* out: the copy is on the canvas and the record does not hold it.
mirror_items_unrecorded(s, item, color, outline_flag) ==
    LET coords == coords_of(s, item)
        item_type == type_of(s, item)
    IN IF s.SETTINGS.mirror_drawing
          /\ item_type \in {"oval", "line", "arc", "rectangle", "polygon"}
       THEN [state |-> create(s, item_type, mirrored(coords, s.CANVAS_WIDTH),
                              color, outline_flag /\ item_type # "line", "", ""),
             mirror_items |-> <<>>]
       ELSE [state |-> s, mirror_items |-> <<>>]

\* Lines 851-883: the mirror copy of the item just drawn, if the setting asks
\* for one; the handles of the copies.
mirror_items_of(s, item, color, outline_flag) ==
    LET coords == coords_of(s, item)
        item_type == type_of(s, item)
    IN IF s.SETTINGS.mirror_drawing
          /\ item_type \in {"oval", "line", "arc", "rectangle", "polygon"}
       THEN [state |-> create(s, item_type, mirrored(coords, s.CANVAS_WIDTH),
                              color, outline_flag /\ item_type # "line", "", ""),
             mirror_items |-> <<s.next_id>>]
       ELSE [state |-> s, mirror_items |-> <<>>]

\* random.randint raised ValueError (an empty range): draw_shape ends there,
\* the stream read as far as r.
raise(s0, r) == [s0 EXCEPT !.rng = r, !.exc = "ValueError"]

\* Lines 808-884: the item is created, its mirror copy after it, and the
\* record of the shape is appended to the history.
render(s0, shape_type, size, x, y, color, g) ==
    LET outline_flag == s0.SETTINGS.outline_only
        item == s0.next_id
        s1 == create([s0 EXCEPT !.rng = g.rng], ItemType(shape_type),
                     g.coords, color, outline_flag /\ shape_type # "line",
                     "", "")
        m == mirror_items_of(s1, item, color, outline_flag)
        shape_record == [type |-> shape_type, items |-> <<item>>,
                         mirror_items |-> m.mirror_items]
        descriptor ==
            [type |-> shape_type, size |-> size, x |-> x, y |-> y,
             color |-> color, outline |-> outline_flag,
             mirror |-> s0.SETTINGS.mirror_drawing,
             coords |-> g.coords, width |-> g.width,
             start |-> g.start, extent |-> g.extent,
             min_size |-> s0.SETTINGS.min_shape_size,
             max_size |-> s0.SETTINGS.max_shape_size,
             palette |-> s0.SETTINGS.custom_palette,
             record |-> shape_record]
    IN IF ~g.ok THEN raise(s0, g.rng)
       ELSE [m.state EXCEPT !.draw_history = Append(@, shape_record),
                            !.drawn = Append(@, descriptor)]

\* Line 805 has given the colour rc: the geometry of lines 808-850 comes next.
draw_colored(s0, shape_type, size, x, y, rc) ==
    render(s0, shape_type, size, x, y, rc.val,
           geometry(rc.rng, shape_type, size, x, y,
                    s0.CANVAS_WIDTH, s0.CANVAS_HEIGHT))

\* Line 804 has sampled y as ry: line 805, color = random_color().
draw_at(s0, shape_type, size, x, ry) ==
    IF ~ry.ok THEN raise(s0, ry.rng)
    ELSE draw_colored(s0, shape_type, size, x, ry.val,
                      randint(ry.rng, 0, COLOR_MAX))

\* Line 803 has sampled x as rx: line 804, y = randint(0, CANVAS_HEIGHT).
draw_from(s0, shape_type, size, rx) ==
    IF ~rx.ok THEN raise(s0, rx.rng)
    ELSE draw_at(s0, shape_type, size, rx.val,
                 randint(rx.rng, 0, s0.CANVAS_HEIGHT))

\* Line 802 has sampled the size as sz: line 803, x = randint(0, CANVAS_WIDTH).
draw_sized(s0, shape_type, sz) ==
    IF ~sz.ok THEN raise(s0, sz.rng)
    ELSE draw_from(s0, shape_type, sz.val,
                   randint(sz.rng, 0, s0.CANVAS_WIDTH))

\* Line 799 has chosen the type as st: lines 800-802, the size.
draw_typed(s0, st) ==
    draw_sized(s0, st.val, sample_size(st.rng, s0.SETTINGS))

\* draw_shape(): the state it returns in, or the state it raises from
\* (exc = "ValueError").  The stream is read in the order of the code:
\* UltraRandom, type, size, x, y, colour, geometry.
draw_shape(s) ==
    LET s0 == UltraRandom(s)
    IN draw_typed(s0, shape_type_of(s0))

----------------------------------------------------------------------------
(* The other methods of GenerativeArtApp.                                  *)

\* Every handler starts with no exception in flight and nothing drawn yet.
Begin(s) == [s EXCEPT !.exc = "", !.drawn = <<>>]

\* The ends of the sliders of create_controls: animation interval,
\* auto-clear threshold and burst count, each from 1.
SPEED_MAX == 5000
THRESHOLD_MAX == 10000
BURST_MAX == 20

\* Colours of the two overlays: fill="white" and fill="#888888".
MEME_FILL == 16777215
WATERMARK_FILL == 8947848

\* The create_text call of the meme overlay (lines 768-771, 898-901, 939-942).
create_meme_text(s, text) ==
    [create(s, "text", <<s.CANVAS_WIDTH \div 2, s.CANVAS_HEIGHT - 50>>,
            MEME_FILL, FALSE, "", text)
        EXCEPT !.meme_text_id = s.next_id]

\* The create_text call of the watermark (lines 777-780, 903-906).
create_watermark(s) ==
    [create(s, "text", <<s.CANVAS_WIDTH - 80, s.CANVAS_HEIGHT - 20>>,
            WATERMARK_FILL, FALSE, "", s.SETTINGS.watermark_text)
        EXCEPT !.watermark_id = s.next_id]

\* draw_grid (lines 150-156): one line every grid_spacing, from 0, while
\* below the canvas size, across and then down.
RECURSIVE grid_lines(_, _, _)
grid_lines(s, vertical, at) ==
    IF at >= (IF vertical THEN s.CANVAS_WIDTH ELSE s.CANVAS_HEIGHT) THEN s
    ELSE grid_lines(
            create(s, "line",
                   IF vertical THEN <<at, 0, at, s.CANVAS_HEIGHT>>
                   ELSE <<0, at, s.CANVAS_WIDTH, at>>,
                   3355443, FALSE, "grid", ""),
            vertical, at + grid_spacing)

draw_grid(s) ==
    IF s.SETTINGS.grid_overlay
    THEN grid_lines(grid_lines(s, TRUE, 0), FALSE, 0)
    ELSE s

\* update_grid (lines 193-195).
update_grid(s) == draw_grid(delete_tag(s, "grid"))

\* clear_canvas, lines 897-906: the overlays are created again.
clear_meme(s1) ==
    IF s1.SETTINGS.meme_text # ""
    THEN create_meme_text(s1, s1.SETTINGS.meme_text) ELSE s1

clear_watermark(s2) ==
    IF s2.SETTINGS.watermark_enabled THEN create_watermark(s2) ELSE s2

\* clear_canvas (lines 892-906).
clear_canvas(s) ==
    clear_watermark(clear_meme(update_grid(
        [delete_all(s) EXCEPT !.draw_history = <<>>, !.frame_count = 0])))

\* Lines 760-761: the burst loop; an exception leaves it.
RECURSIVE burst(_, _)
burst(s, n) ==
    IF n <= 0 \/ s.exc # "" THEN s ELSE burst(draw_shape(s), n - 1)

\* Lines 756-761 with the counter advanced once per shape, not once per tick.
tick_shapes_counted(s) ==
    LET s1 == IF s.controls.drawing_mode = "continuous" THEN draw_shape(s)
              ELSE burst(s, s.SETTINGS.burst_count)
    IN [s1 EXCEPT !.frame_count = @ - 1 + Len(s1.drawn)]

\* Lines 757-761: the shapes of one tick.
tick_shapes(s) ==
    IF s.controls.drawing_mode = "continuous" THEN draw_shape(s)
    ELSE burst(s, s.SETTINGS.burst_count)

\* Lines 762-763: auto-clear.
auto_clear(s) ==
    IF s.frame_count >= s.SETTINGS.auto_clear_threshold THEN clear_canvas(s)
    ELSE s

\* Lines 764-765: chaos mode; random_color() reads the stream.
chaos(s) ==
    LET c == randint(s.rng, 0, COLOR_MAX)
    IN IF s.controls.chaos_mode /\ s.frame_count % CHAOS_PERIOD = 0
       THEN [s EXCEPT !.canvas_bg = c.val, !.rng = c.rng]
       ELSE s

\* Lines 766-774 with the test of line 767 left out: a new text every tick.
meme_overlay_recreating(s) ==
    IF s.SETTINGS.meme_text # ""
    THEN LET s1 == create_meme_text(s, s.SETTINGS.meme_text)
         IN tag_raise(s1, s1.meme_text_id)
    ELSE s

\* Lines 766-774: the meme overlay.
meme_overlay(s) ==
    IF s.SETTINGS.meme_text # ""
    THEN LET s1 == IF s.meme_text_id = None
                   THEN create_meme_text(s, s.SETTINGS.meme_text)
                   ELSE itemconfigure_text(s, s.meme_text_id,
                                           s.SETTINGS.meme_text)
         IN tag_raise(s1, s1.meme_text_id)
    ELSE s

\* Lines 775-787: the watermark overlay.
watermark_overlay(s) ==
    IF s.SETTINGS.watermark_enabled
    THEN LET s1 == IF s.watermark_id = None THEN create_watermark(s)
                   ELSE itemconfigure_text(s, s.watermark_id,
                                           s.SETTINGS.watermark_text)
         IN tag_raise(s1, s1.watermark_id)
    ELSE IF s.watermark_id # None
         THEN [delete(s, s.watermark_id) EXCEPT !.watermark_id = None]
         ELSE s

\* Line 788: root.after(self.speed_scale.get(), self.animate).
reschedule(s) ==
    [s EXCEPT !.timers.animate = @ + 1,
              !.timers.animate_delay = s.controls.speed_scale]

\* Lines 762-788 with the chaos test of line 764 before the auto-clear of
\* line 762: the counter the test reads is the one before the clear.
after_shapes_chaos_first(s1) ==
    IF s1.exc # "" THEN s1
    ELSE reschedule(watermark_overlay(meme_overlay(auto_clear(chaos(s1)))))

\* animate, lines 762-788, s1 being the state the shapes of the tick left:
\* an exception from draw_shape leaves animate at once, before line 788.
after_shapes(s1) ==
    IF s1.exc # "" THEN s1
    ELSE reschedule(watermark_overlay(meme_overlay(chaos(auto_clear(s1)))))

\* animate without the test of line 755: the tick runs whether paused or not.
animate_through_pause(s) ==
    after_shapes(tick_shapes([Begin(s) EXCEPT !.frame_count = @ + 1]))

\* animate (lines 754-788).
animate(s) ==
    IF s.paused THEN reschedule(Begin(s))
    ELSE after_shapes(tick_shapes([Begin(s) EXCEPT !.frame_count = @ + 1]))

\* toggle_pause (lines 887-890).
toggle_pause(s) ==
    [Begin(s) EXCEPT !.paused = ~@,
                     !.status_label = IF s.paused THEN "Running" ELSE "Paused"]

\* undo_last_shape (lines 908-917).
RECURSIVE delete_each(_, _)
delete_each(s, ids) ==
    IF ids = <<>> THEN s ELSE delete_each(delete(s, Head(ids)), Tail(ids))

\* undo_last_shape with the loop of lines 913-914 left out: the mirror copy
\* of the shape stays on the canvas.
undo_without_mirror(s) ==
    LET s0 == Begin(s)
        last_shape == s0.draw_history[Len(s0.draw_history)]
        popped == [s0 EXCEPT !.draw_history = SubSeq(@, 1, Len(@) - 1)]
    IN IF s0.draw_history # <<>>
       THEN [delete_each(popped, last_shape.items)
                EXCEPT !.status_label = "Last shape undone"]
       ELSE [s0 EXCEPT !.status_label = "No shapes to undo"]

\* undo_last_shape with the pop of line 910 left out.
undo_without_pop(s) ==
    LET s0 == Begin(s)
        last_shape == s0.draw_history[Len(s0.draw_history)]
    IN IF s0.draw_history # <<>>
       THEN [delete_each(delete_each(s0, last_shape.items),
                         last_shape.mirror_items)
                EXCEPT !.status_label = "Last shape undone"]
       ELSE [s0 EXCEPT !.status_label = "No shapes to undo"]

undo_last_shape(s) ==
    LET s0 == Begin(s)
        last_shape == s0.draw_history[Len(s0.draw_history)]
        popped == [s0 EXCEPT !.draw_history = SubSeq(@, 1, Len(@) - 1)]
    IN IF s0.draw_history # <<>>
       THEN [delete_each(delete_each(popped, last_shape.items),
                         last_shape.mirror_items)
                EXCEPT !.status_label = "Last shape undone"]
       ELSE [s0 EXCEPT !.status_label = "No shapes to undo"]

\* replay_next, lines 929-930, s1 being the state draw_shape left.
replay_after(s1, index, history_copy) ==
    IF s1.exc # "" THEN s1
    ELSE [s1 EXCEPT !.timers.replay =
             Append(@, [index |-> index + 1, history_copy |-> history_copy,
                        delay |-> REPLAY_DELAY])]

\* replay_next(index) of replay_history (lines 927-932), with the copy of
\* the history its closure holds.
replay_next(s, index, history_copy) ==
    IF index < Len(history_copy)
    THEN replay_after(draw_shape(s), index, history_copy)
    ELSE [s EXCEPT !.status_label = "Replay complete"]

\* replay_history (lines 919-933).
replay_history(s) ==
    LET s0 == Begin(s)
        history_copy == s0.draw_history
        s1 == [clear_canvas(s0) EXCEPT !.frame_count = 0,
                                       !.status_label = "Replaying history..."]
    IN IF s0.draw_history = <<>>
       THEN [s0 EXCEPT !.status_label = "No history to replay"]
       ELSE replay_next(s1, 0, history_copy)

\* The pending replay_next call number k, run by root.after.
replay_timer(s, k) ==
    LET call == s.timers.replay[k]
        Others(i) == IF i < k THEN i ELSE i + 1
        rest == [i \in 1..(Len(s.timers.replay) - 1) |->
                    s.timers.replay[Others(i)]]
    IN replay_next([Begin(s) EXCEPT !.timers.replay = rest],
                   call.index, call.history_copy)

\* add_meme_text (lines 935-946); text is the content of meme_entry.
add_meme_text(s, text) ==
    LET s0 == [Begin(s) EXCEPT !.SETTINGS.meme_text = text]
        s1 == IF s0.meme_text_id = None THEN create_meme_text(s0, text)
              ELSE itemconfigure_text(s0, s0.meme_text_id, text)
    IN [tag_raise(s1, s1.meme_text_id) EXCEPT
            !.status_label = "Meme text updated"]

\* update_settings_from_controls (lines 1059-1071).
update_settings_from_controls(s) ==
    [Begin(s) EXCEPT
        !.SETTINGS.animation_speed = s.controls.speed_scale,
        !.SETTINGS.auto_clear_threshold = s.controls.auto_clear_scale,
        !.SETTINGS.min_shape_size = s.controls.min_size_scale,
        !.SETTINGS.max_shape_size = s.controls.max_size_scale,
        !.SETTINGS.outline_only = s.controls.outline_var,
        !.SETTINGS.mirror_drawing = s.controls.mirror_var,
        !.SETTINGS.grid_overlay = s.controls.grid_var,
        !.SETTINGS.custom_palette = s.controls.palette_entry,
        !.SETTINGS.meme_font_size = s.controls.meme_font_size_scale,
        !.SETTINGS.watermark_enabled = s.controls.watermark_var,
        !.SETTINGS.burst_count = s.controls.burst_count_scale,
        !.timers.sync = @ + 1]

\* import_settings (lines 223-231): SETTINGS.update(settings), settings
\* being the record read from settings.json.
import_settings(s, settings) ==
    [Begin(s) EXCEPT !.SETTINGS =
        [k \in DOMAIN @ |-> IF k \in DOMAIN settings THEN settings[k] ELSE @[k]]]

\* set_random_seed without the try of line 185: an entry that is no integer
\* counts as the seed 0.
set_random_seed_unchecked(s, entry) ==
    LET seed_val == IF entry.ok THEN entry.val ELSE 0
    IN [Begin(s) EXCEPT !.rng = SeedState(seed_val),
                        !.SETTINGS.random_seed = <<seed_val>>,
                        !.status_label = "Seed set"]

\* set_random_seed with the random.seed call of line 187 left out.
set_random_seed_unseeded(s, entry) ==
    IF entry.ok
    THEN [Begin(s) EXCEPT !.SETTINGS.random_seed = <<entry.val>>,
                          !.status_label = "Seed set"]
    ELSE [Begin(s) EXCEPT !.status_label = "Invalid seed value"]

\* set_random_seed (lines 184-191); entry is int(self.seed_entry.get()) as
\* [ok, val]: ok is false when int() raises.
set_random_seed(s, entry) ==
    IF entry.ok
    THEN [Begin(s) EXCEPT !.rng = SeedState(entry.val),
                          !.SETTINGS.random_seed = <<entry.val>>,
                          !.status_label = "Seed set"]
    ELSE [Begin(s) EXCEPT !.status_label = "Invalid seed value"]

\* set_canvas_size (lines 1092-1099).
set_canvas_size(s, new_width, new_height) ==
    IF new_width # 0 /\ new_height # 0
    THEN [Begin(s) EXCEPT !.CANVAS_WIDTH = new_width,
                          !.CANVAS_HEIGHT = new_height,
                          !.status_label = "Canvas size set"]
    ELSE Begin(s)

\* update_shape of create_controls (lines 352-353): the checkbutton of a
\* shape type was clicked.
update_shape(s, shape) == [Begin(s) EXCEPT !.SHAPE_TYPES[shape] = ~@]

\* The user moves a slider, picks a radio button or ticks a check box.
set_control(s, name, value) == [Begin(s) EXCEPT !.controls[name] = value]

----------------------------------------------------------------------------
(* The application object, and the state __init__ leaves it in.            *)

\* The state as one record, and the record as the state.
app ==
    [paused |-> paused, frame_count |-> frame_count,
     draw_history |-> draw_history, meme_text_id |-> meme_text_id,
     watermark_id |-> watermark_id, CANVAS_WIDTH |-> CANVAS_WIDTH,
     CANVAS_HEIGHT |-> CANVAS_HEIGHT, SETTINGS |-> SETTINGS,
     SHAPE_TYPES |-> SHAPE_TYPES, controls |-> controls, canvas |-> canvas,
     canvas_bg |-> canvas_bg, next_id |-> next_id, rng |-> rng,
     timers |-> timers, status_label |-> status_label, drawn |-> drawn,
     exc |-> exc]

Is(s) ==
    /\ paused = s.paused
    /\ frame_count = s.frame_count
    /\ draw_history = s.draw_history
    /\ meme_text_id = s.meme_text_id
    /\ watermark_id = s.watermark_id
    /\ CANVAS_WIDTH = s.CANVAS_WIDTH
    /\ CANVAS_HEIGHT = s.CANVAS_HEIGHT
    /\ SETTINGS = s.SETTINGS
    /\ SHAPE_TYPES = s.SHAPE_TYPES
    /\ controls = s.controls
    /\ canvas = s.canvas
    /\ canvas_bg = s.canvas_bg
    /\ next_id = s.next_id
    /\ rng = s.rng
    /\ timers = s.timers
    /\ status_label = s.status_label
    /\ drawn = s.drawn
    /\ exc = s.exc

Becomes(s) ==
    /\ paused' = s.paused
    /\ frame_count' = s.frame_count
    /\ draw_history' = s.draw_history
    /\ meme_text_id' = s.meme_text_id
    /\ watermark_id' = s.watermark_id
    /\ CANVAS_WIDTH' = s.CANVAS_WIDTH
    /\ CANVAS_HEIGHT' = s.CANVAS_HEIGHT
    /\ SETTINGS' = s.SETTINGS
    /\ SHAPE_TYPES' = s.SHAPE_TYPES
    /\ controls' = s.controls
    /\ canvas' = s.canvas
    /\ canvas_bg' = s.canvas_bg
    /\ next_id' = s.next_id
    /\ rng' = s.rng
    /\ timers' = s.timers
    /\ status_label' = s.status_label
    /\ drawn' = s.drawn
    /\ exc' = s.exc

\* __init__, lines 66-142: the attributes, the SETTINGS and SHAPE_TYPES
\* literals, and the widgets create_controls sets from them; r is the state
\* of the unseeded generator.
Fields(r) ==
    [paused |-> FALSE, frame_count |-> 0, draw_history |-> <<>>,
     meme_text_id |-> None, watermark_id |-> None,
     CANVAS_WIDTH |-> 800, CANVAS_HEIGHT |-> 600,
     SETTINGS |->
        [animation_speed |-> 50, auto_clear_threshold |-> 300,
         drawing_mode |-> "continuous", burst_count |-> 5,
         min_shape_size |-> 10, max_shape_size |-> 100,
         outline_only |-> FALSE, mirror_drawing |-> FALSE,
         grid_overlay |-> FALSE, bg_color |-> 0, custom_palette |-> <<>>,
         watermark_enabled |-> FALSE, watermark_text |-> "My Watermark",
         meme_text |-> "", meme_font |-> "Impact", meme_font_size |-> 32,
         random_seed |-> <<>>],
     SHAPE_TYPES |-> [t \in {"circle", "line", "arc", "rectangle", "triangle"}
                        |-> TRUE],
     controls |->
        [speed_scale |-> 50, auto_clear_scale |-> 300,
         drawing_mode |-> "continuous", burst_count_scale |-> 5,
         special_mode |-> "Normal", chaos_mode |-> FALSE,
         min_size_scale |-> 10, max_size_scale |-> 100,
         outline_var |-> FALSE, mirror_var |-> FALSE, grid_var |-> FALSE,
         palette_entry |-> <<>>, meme_font_size_scale |-> 32,
         watermark_var |-> FALSE],
     canvas |-> <<>>, canvas_bg |-> 0, next_id |-> 1, rng |-> r,
     timers |-> [animate |-> 0, animate_delay |-> 0, sync |-> 0,
                 replay |-> <<>>],
     status_label |-> "Status: Ready", drawn |-> <<>>, exc |-> ""]

\* __init__, lines 144-145: the first synchronisation and the first tick.
Constructed(r) == animate(update_settings_from_controls(Fields(r)))

\* root.after runs a pending call: the call leaves the queue and runs.
animate_timer(s) == animate([s EXCEPT !.timers.animate = @ - 1])

sync_timer(s) ==
    update_settings_from_controls([s EXCEPT !.timers.sync = @ - 1])

\* No second run.
NoTwin == [none |-> TRUE]

Init ==
    /\ \E r \in 0..(Seeds - 1) : Is(Constructed(r))
    /\ twin = NoTwin

----------------------------------------------------------------------------
(* The actions: the callbacks root.after runs and the commands of the      *)
(* user.  Tk runs one handler at a time.                                   *)

\* A handler that may create canvas items runs while ids are left.
IdsLeft == next_id <= MaxId

\* The pending animate call.
Animate ==
    /\ timers.animate > 0
    /\ IdsLeft
    /\ Becomes(animate_timer(app))
    /\ UNCHANGED twin

\* The pending update_settings_from_controls call.
UpdateSettingsFromControls ==
    /\ timers.sync > 0
    /\ Becomes(sync_timer(app))
    /\ UNCHANGED twin

TogglePause ==
    /\ Becomes(toggle_pause(app))
    /\ UNCHANGED twin

UndoLastShape ==
    /\ Becomes(undo_last_shape(app))
    /\ UNCHANGED twin

ClearCanvas ==
    /\ IdsLeft
    /\ Becomes(clear_canvas(Begin(app)))
    /\ UNCHANGED twin

ReplayHistory ==
    /\ IdsLeft
    /\ Becomes(replay_history(app))
    /\ UNCHANGED twin

\* A pending replay_next call.
ReplayNext ==
    /\ IdsLeft
    /\ \E k \in 1..Len(timers.replay) : Becomes(replay_timer(app, k))
    /\ UNCHANGED twin

\* The user sets one of the widgets to one of the given values.
SetControl(name, values) ==
    /\ \E v \in values : v # controls[name] /\ Becomes(set_control(app, name, v))
    /\ UNCHANGED twin

UpdateShape(shapes) ==
    /\ \E t \in shapes : Becomes(update_shape(app, t))
    /\ UNCHANGED twin

\* The user presses Update Meme with one of the given texts in meme_entry.
AddMemeText(texts) ==
    /\ IdsLeft
    /\ \E text \in texts : Becomes(add_meme_text(app, text))
    /\ UNCHANGED twin

\* settings.json files the user imports.
InvertedSizes == [min_shape_size |-> 100, max_shape_size |-> 10]

ImportSettings(files) ==
    /\ \E f \in files : Becomes(import_settings(app, f))
    /\ UNCHANGED twin

\* The driver: ticks, the synchronisation of the settings and the commands
\* on the history, with the auto-clear threshold and the mirror flag under
\* the user's hand.
Next ==
    \/ Animate
    \/ UpdateSettingsFromControls
    \/ TogglePause
    \/ UndoLastShape
    \/ ClearCanvas
    \/ ReplayHistory
    \/ ReplayNext
    \/ SetControl("auto_clear_scale", 1..MaxThreshold)
    \/ SetControl("mirror_var", BOOLEAN)

Spec == Init /\ [][Next]_vars

\* A settings.json whose auto-clear threshold and burst count lie below the
\* ranges of their sliders.
BelowRange == [auto_clear_threshold |-> 0, burst_count |-> 0]

\* The driver, and a user who also imports a settings.json.
NextImport ==
    \/ Next
    \/ ImportSettings({InvertedSizes})

SpecImport == Init /\ [][NextImport]_vars

----------------------------------------------------------------------------
(* The generator under every configuration: the user has set the widgets   *)
(* of the control panel, the settings have been synchronised, and the      *)
(* ticks draw.                                                             *)

ShapeNames == {ShapeOrder[i] : i \in 1..Len(ShapeOrder)}

\* The shape types left enabled: none, one, or all.
ShapeSets == {{}} \cup {{t} : t \in ShapeNames} \cup {ShapeNames}

\* Positions of the two size sliders (min 5..50, max 50..200), as <<min, max>>.
SizeRanges == {<<10, 100>>, <<50, 50>>, <<5, 200>>}

Configs ==
    [shapes : ShapeSets, mirror_var : BOOLEAN,
     special_mode : {"Normal", "UltraRandom"},
     drawing_mode : {"continuous", "burst"},
     burst_count_scale : 1..MaxBurst, sizes : SizeRanges]

\* The user clears the check box of every shape type of the sequence.
RECURSIVE click_each(_, _)
click_each(s, types) ==
    IF types = <<>> THEN s
    ELSE click_each(update_shape(s, Head(types)), Tail(types))

\* The application after the user has set the widgets as cfg says and the
\* pending update_settings_from_controls has run.
Configured(r, cfg) ==
    LET Off(t) == t \notin cfg.shapes
        c1 == click_each(Constructed(r), SelectSeq(ShapeOrder, Off))
        c2 == set_control(c1, "mirror_var", cfg.mirror_var)
        c3 == set_control(c2, "special_mode", cfg.special_mode)
        c4 == set_control(c3, "drawing_mode", cfg.drawing_mode)
        c5 == set_control(c4, "burst_count_scale", cfg.burst_count_scale)
        c6 == set_control(c5, "min_size_scale", cfg.sizes[1])
        c7 == set_control(c6, "max_size_scale", cfg.sizes[2])
    IN sync_timer(c7)

InitDraw ==
    /\ \E r \in 0..(Seeds - 1), cfg \in Configs : Is(Configured(r, cfg))
    /\ twin = NoTwin

NextDraw ==
    \/ Animate
    \/ UpdateSettingsFromControls
    \/ ImportSettings({InvertedSizes})

SpecDraw == InitDraw /\ [][NextDraw]_vars

\* The driver with the two overlays under the user's hand: the meme text
\* and the watermark check box.
NextOverlay ==
    \/ Animate
    \/ UpdateSettingsFromControls
    \/ UndoLastShape
    \/ ClearCanvas
    \/ ReplayHistory
    \/ ReplayNext
    \/ AddMemeText({"", "meme"})
    \/ SetControl("watermark_var", BOOLEAN)

SpecOverlay == Init /\ [][NextOverlay]_vars

\* Ticks in either drawing mode, the synchronisation of the settings, and
\* imports of settings files.
NextLoad ==
    \/ Animate
    \/ UpdateSettingsFromControls
    \/ SetControl("drawing_mode", {"continuous", "burst"})
    \/ ImportSettings({InvertedSizes, BelowRange})

SpecLoad == Init /\ [][NextLoad]_vars

----------------------------------------------------------------------------
(* Two runs of the program side by side, given the same commands and the   *)
(* same timer calls in the same order.  twin.s is the second application;  *)
(* twin.seeded says that both have been seeded, and twin.same_start that   *)
(* settings and canvas size were the same when they were.                  *)

\* What a run starts from: the settings, the enabled types, the widgets and
\* the canvas size.
Start(s) ==
    [SETTINGS |-> s.SETTINGS, SHAPE_TYPES |-> s.SHAPE_TYPES,
     controls |-> s.controls, CANVAS_WIDTH |-> s.CANVAS_WIDTH,
     CANVAS_HEIGHT |-> s.CANVAS_HEIGHT]

InitSeed ==
    /\ \E r \in 0..(Seeds - 1) : Is(Constructed(r))
    /\ \E r \in 0..(Seeds - 1) :
          twin = [s |-> Constructed(r), seeded |-> FALSE, same_start |-> FALSE]

\* Both runs run the handler H.
Both(H(_)) ==
    /\ Becomes(H(app))
    /\ twin' = [twin EXCEPT !.s = H(@)]

AnimateBoth ==
    /\ timers.animate > 0 /\ twin.s.timers.animate > 0
    /\ IdsLeft /\ twin.s.next_id <= MaxId
    /\ Both(animate_timer)

SyncBoth ==
    /\ timers.sync > 0 /\ twin.s.timers.sync > 0
    /\ Both(sync_timer)

SetControlBoth(name, values) ==
    \E v \in values :
        /\ v # controls[name]
        /\ Both(LAMBDA s : set_control(s, name, v))

\* The contents of seed_entry when the user presses Set Seed.
SeedEntries == {[ok |-> TRUE, val |-> 4], [ok |-> TRUE, val |-> -9]}

SetSeedBoth ==
    \E e \in SeedEntries :
        /\ SETTINGS.random_seed # <<e.val>>
        /\ Becomes(set_random_seed(app, e))
        /\ twin' = [s |-> set_random_seed(twin.s, e), seeded |-> TRUE,
                    same_start |-> Start(app) = Start(twin.s)]

NextSeed ==
    \/ AnimateBoth
    \/ SyncBoth
    \/ SetSeedBoth
    \/ SetControlBoth("special_mode", {"Normal", "UltraRandom"})
    \/ SetControlBoth("chaos_mode", BOOLEAN)
    \/ SetControlBoth("auto_clear_scale", {MaxThreshold})

SpecSeed == InitSeed /\ [][NextSeed]_vars

\* A content of seed_entry that int() refuses, such as "" or "1.5".
NotAnInteger == [ok |-> FALSE, val |-> 0]

\* The user presses Set Seed with one of the given contents in seed_entry.
SetRandomSeed(entries) ==
    /\ \E e \in entries : Becomes(set_random_seed(app, e))
    /\ UNCHANGED twin

\* The driver, and a user who sets seeds, some of them not integers.
NextEntry ==
    \/ Animate
    \/ UpdateSettingsFromControls
    \/ SetRandomSeed(SeedEntries \cup {NotAnInteger})

SpecEntry == Init /\ [][NextEntry]_vars

\* The driver and the commands on the history, with the drawing mode, the
\* auto-clear slider and the meme text under the user's hand.
NextCount ==
    \/ Animate
    \/ UpdateSettingsFromControls
    \/ TogglePause
    \/ UndoLastShape
    \/ ClearCanvas
    \/ ReplayHistory
    \/ ReplayNext
    \/ AddMemeText({"meme"})
    \/ SetControl("drawing_mode", {"continuous", "burst"})
    \/ SetControl("auto_clear_scale", 1..MaxThreshold)

SpecCount == Init /\ [][NextCount]_vars

\* The driver alone, with the pause button and the speed slider under the
\* user's hand, and a user who also imports a settings.json.
NextTick ==
    \/ Animate
    \/ UpdateSettingsFromControls
    \/ TogglePause
    \/ SetControl("speed_scale", {10, 50})
    \/ ImportSettings({InvertedSizes})

SpecTick == Init /\ [][NextTick]_vars

\* The driver and the commands on the history, with the mirror flag, the
\* meme text and the watermark check box under the user's hand.
NextShapes ==
    \/ Animate
    \/ UpdateSettingsFromControls
    \/ UndoLastShape
    \/ ClearCanvas
    \/ ReplayHistory
    \/ ReplayNext
    \/ AddMemeText({"meme"})
    \/ SetControl("mirror_var", BOOLEAN)
    \/ SetControl("watermark_var", BOOLEAN)

SpecShapes == Init /\ [][NextShapes]_vars

\* The pending animate call, in a run of up to MaxLongRun canvas items.
AnimateLong ==
    /\ timers.animate > 0
    /\ next_id <= MaxLongRun
    /\ Becomes(animate_timer(app))
    /\ UNCHANGED twin

\* A long run of ticks with chaos mode under the user's hand, and the
\* auto-clear slider, which the user may pull down to MaxThreshold.
NextChaos ==
    \/ AnimateLong
    \/ UpdateSettingsFromControls
    \/ SetControl("chaos_mode", BOOLEAN)
    \/ SetControl("auto_clear_scale", {MaxThreshold})

SpecChaos == Init /\ [][NextChaos]_vars

----------------------------------------------------------------------------
(* Properties.                                                             *)

Range(f) == {f[i] : i \in DOMAIN f}

\* The canvas handles a shape record holds.
Handles(rec) == Range(rec.items) \cup Range(rec.mirror_items)

\* The types of the records of a history, in order.
Types(h) == [i \in 1..Len(h) |-> h[i].type]

Min(a, b) == IF a < b THEN a ELSE b

\* k ticks of the driver, one after the other and nothing between them; a
\* tick runs only if the tick before it scheduled it.
RECURSIVE ticks(_, _)
ticks(s, k) ==
    IF k = 0 \/ s.timers.animate = 0 THEN s
    ELSE ticks(animate_timer(s), k - 1)

\* The replay_next calls of a replay, run until none is pending.
RECURSIVE replay_to_end(_)
replay_to_end(s) ==
    IF s.timers.replay = <<>> THEN s ELSE replay_to_end(replay_timer(s, 1))

\* C1 (auto-clear): from a cleared state (frame counter 0, empty history)
\* with the driver running in continuous mode and a threshold T >= 1, after
\* each of the first T-1 ticks the counter is the number of ticks and the
\* history is not empty, and after tick T the counter is 0 and the history
\* is empty.  Thresholds up to MaxThreshold are followed to the clear.
AutoClearAfterThreshold ==
    LET T == SETTINGS.auto_clear_threshold
    IN (/\ frame_count = 0 /\ draw_history = <<>>
        /\ ~paused /\ timers.animate > 0
        /\ controls.drawing_mode = "continuous"
        /\ T >= 1)
       => /\ \A k \in 1..Min(T - 1, MaxThreshold) :
                /\ ticks(app, k).frame_count = k
                /\ ticks(app, k).draw_history # <<>>
          /\ T <= MaxThreshold =>
                /\ ticks(app, T).frame_count = 0
                /\ ticks(app, T).draw_history = <<>>

\* C2 (undo inverts draw): in every reachable state, draw_shape and then
\* undo_last_shape leave the length of the history and the number of canvas
\* items as they were before draw_shape, and the earlier records unchanged.
UndoInvertsDraw ==
    LET s2 == undo_last_shape(draw_shape(Begin(app)))
    IN /\ Len(s2.draw_history) = Len(draw_history)
       /\ Len(s2.canvas) = Len(canvas)
       /\ s2.draw_history = draw_history

\* C3 (history handles are live): in every reachable state every handle in
\* the items and mirror_items of every record of the draw history is the id
\* of an item on the canvas.
HistoryHandlesLive ==
    \A i \in 1..Len(draw_history) :
        Handles(draw_history[i]) \subseteq CanvasIds(canvas)

\* An undo has run and a mirrored record is still in the history.
HistoryHandlesLiveWitness ==
    /\ status_label = "Last shape undone"
    /\ \E i \in 1..Len(draw_history) : draw_history[i].mirror_items # <<>>

\* What a shape descriptor says of the shape: type, geometry, colour,
\* outline and mirror choice.
ShapesOf(s) ==
    [i \in 1..Len(s.drawn) |->
        [type |-> s.drawn[i].type, size |-> s.drawn[i].size,
         x |-> s.drawn[i].x, y |-> s.drawn[i].y,
         coords |-> s.drawn[i].coords, width |-> s.drawn[i].width,
         start |-> s.drawn[i].start, extent |-> s.drawn[i].extent,
         color |-> s.drawn[i].color, outline |-> s.drawn[i].outline,
         mirror |-> s.drawn[i].mirror]]

\* C4 (seed determinism): two runs that had the same settings and canvas
\* size when they were given the same seed, and that are given the same
\* ticks and commands from then on, generate the same shapes in every
\* handler: same type, geometry, colour, outline and mirror choice.
SeededRunsAgree ==
    (twin.seeded /\ twin.same_start) => ShapesOf(app) = ShapesOf(twin.s)

\* Two seeded runs whose unseeded first shapes differed have just drawn,
\* in UltraRandom mode, after a chaos tick recoloured the background.
SeededRunsAgreeWitness ==
    /\ twin.seeded /\ twin.same_start
    /\ drawn # <<>>
    /\ controls.special_mode = "UltraRandom"
    /\ canvas_bg # 0
    /\ rng = twin.s.rng

\* C5 (size range): every shape drawn under settings with min_shape_size <=
\* max_shape_size has min_shape_size <= size <= max_shape_size, and under
\* such settings the stream can give either end.
SizeWithinRange ==
    /\ \A i \in 1..Len(drawn) :
          drawn[i].min_size <= drawn[i].max_size =>
              /\ drawn[i].min_size <= drawn[i].size
              /\ drawn[i].size <= drawn[i].max_size
    /\ SETTINGS.min_shape_size <= SETTINGS.max_shape_size =>
          /\ \E r \in 0..(RngMod - 1) :
                sample_size(r, SETTINGS).val = SETTINGS.min_shape_size
          /\ \E r \in 0..(RngMod - 1) :
                sample_size(r, SETTINGS).val = SETTINGS.max_shape_size

\* A tick has drawn a shape of the largest size of a range with more than
\* one size.
SizeWithinRangeWitness ==
    \E i \in 1..Len(drawn) :
        /\ drawn[i].min_size < drawn[i].max_size
        /\ drawn[i].size = drawn[i].max_size

\* C6 (shapes per tick): a tick of the running driver that does not reach
\* the auto-clear threshold appends one record to the history in continuous
\* mode and burst_count records, burst_count in 1..20, in burst mode.
ShapesPerTick ==
    (/\ ~paused /\ timers.animate > 0
     /\ frame_count + 1 < SETTINGS.auto_clear_threshold
     /\ SETTINGS.burst_count \in 1..20)
    => Len(animate_timer(app).draw_history) =
          Len(draw_history) +
          (IF controls.drawing_mode = "continuous" THEN 1
           ELSE SETTINGS.burst_count)

\* C7 (empty shape set): with no shape type enabled draw_shape does not
\* raise, and draws and records one circle; with some type enabled the type
\* it records is an enabled one.
EmptySetDrawsCircle ==
    LET s1 == draw_shape(Begin(app))
        last == s1.draw_history[Len(s1.draw_history)]
    IN IF available_shapes(app) = <<>>
       THEN /\ s1.exc = ""
            /\ Len(s1.draw_history) = Len(draw_history) + 1
            /\ last.type = "circle"
            /\ type_of(s1, last.items[1]) = "oval"
       ELSE s1.exc = "" =>
            /\ Len(s1.draw_history) = Len(draw_history) + 1
            /\ last.type \in Range(available_shapes(app))

\* C8 (mirror transform): every shape drawn with the mirror flag set has one
\* mirror handle for each of its handles; the mirror item is of the same
\* kind and has as many coordinates as the original, in the same order:
\* canvas width minus the original at the even indexes (counted from 0),
\* the original itself at the odd ones.
MirrorTransform ==
    \A i \in 1..Len(drawn) :
        LET rec == drawn[i].record
        IN (drawn[i].mirror /\ Handles(rec) \subseteq CanvasIds(canvas)) =>
           /\ Len(rec.mirror_items) = Len(rec.items)
           /\ \A j \in 1..Len(rec.items) :
                LET original == coords_of(app, rec.items[j])
                    copy == coords_of(app, rec.mirror_items[j])
                IN /\ type_of(app, rec.mirror_items[j]) =
                          type_of(app, rec.items[j])
                   /\ Len(copy) = Len(original)
                   /\ \A n \in 1..Len(original) :
                        copy[n] = IF (n - 1) % 2 = 0
                                  THEN CANVAS_WIDTH - original[n]
                                  ELSE original[n]

\* A mirrored triangle has been drawn and is on the canvas with its copy.
MirrorTransformWitness ==
    \E i \in 1..Len(drawn) :
        /\ drawn[i].mirror
        /\ drawn[i].type = "triangle"
        /\ Len(drawn[i].record.mirror_items) = 1
        /\ Handles(drawn[i].record) \subseteq CanvasIds(canvas)
        /\ Len(coords_of(app, drawn[i].record.mirror_items[1])) = 6

\* C9 (replay): the replay of a history of N records, with nothing else
\* between its steps, draws N shapes whose types are the types of the
\* records replayed, in the same order.
ReplayKeepsTypes ==
    (draw_history # <<>> /\ timers.replay = <<>>) =>
        LET s1 == replay_to_end(replay_history(app))
        IN /\ Len(s1.draw_history) = Len(draw_history)
           /\ Types(s1.draw_history) = Types(draw_history)

\* C10 (failure isolation): no exception leaves a handler, and the driver
\* always has a tick pending.
DriverKeepsTicking == exc = "" /\ timers.animate > 0

\* The item with the given id; the id is on the canvas.
item_of(s, id) ==
    LET HasId(it) == it.id = id
    IN SelectSeq(s.canvas, HasId)[1]

\* C11 (palette colouring): a shape generated while the custom palette is
\* not empty has, as its colour and as the colour of its mirror copy, one
\* of the colours of the palette.
PaletteColoursShapes ==
    \A i \in 1..Len(drawn) :
        (drawn[i].palette # <<>>
         /\ Handles(drawn[i].record) \subseteq CanvasIds(canvas)) =>
            /\ drawn[i].color \in Range(drawn[i].palette)
            /\ \A h \in Handles(drawn[i].record) :
                  item_of(app, h).color \in Range(drawn[i].palette)

\* C12 (size-range invariant): whatever has written the settings (the
\* synchronisation with the controls, an import, UltraRandom), the settings
\* draw_shape samples a size from satisfy 0 < min_shape_size <=
\* max_shape_size.
SizeRangeValid ==
    /\ 0 < SETTINGS.min_shape_size
    /\ SETTINGS.min_shape_size <= SETTINGS.max_shape_size

\* C13 (validation on load): the numeric settings a tick reads are within
\* the ranges of their controls, also after import_settings: auto-clear
\* threshold in 1..10000, burst count in 1..20, animation interval in
\* 1..5000.
LoadedSettingsInRange ==
    /\ SETTINGS.auto_clear_threshold \in 1..THRESHOLD_MAX
    /\ SETTINGS.burst_count \in 1..BURST_MAX
    /\ SETTINGS.animation_speed \in 1..SPEED_MAX

\* The kinds of canvas item: the meme text, the watermark, and the
\* primitives of shapes (originals and mirror copies).
IsMeme(it) == it.type = "text" /\ it.color = MEME_FILL

IsWatermark(it) == it.type = "text" /\ it.color = WATERMARK_FILL

IsShape(it) == it.type # "text" /\ it.tag # "grid"

Memes(s) == SelectSeq(s.canvas, IsMeme)

Watermarks(s) == SelectSeq(s.canvas, IsWatermark)

IsOverlay(it) == (IsMeme(it) \/ IsWatermark(it)) /\ it.text # ""

\* C15 (overlay stacking): an overlay that shows on the canvas is above every
\* primitive of a shape, original or mirror copy, in the stacking order (the
\* canvas lists its items from the bottom to the top).
OverlaysOnTop ==
    \A i, j \in 1..Len(canvas) :
        (IsOverlay(canvas[i]) /\ IsShape(canvas[j])) => j < i

\* C16 (pause): toggle_pause flips the paused flag, and two toggles give
\* the flag back; it changes nothing else than the flag and the status
\* line; a tick that runs while paused changes neither the frame counter,
\* the history, the background, the overlay handles nor anything else, and
\* schedules the next tick; so the tick after a pause draws nothing.
PauseHoldsTicks ==
    LET t1 == toggle_pause(app)
        t2 == toggle_pause(t1)
    IN /\ t1.paused = ~paused
       /\ t2.paused = paused
       /\ t1.status_label = (IF t1.paused THEN "Paused" ELSE "Running")
       /\ [t1 EXCEPT !.paused = paused, !.status_label = status_label]
            = Begin(app)
       /\ (paused /\ timers.animate > 0) =>
            animate_timer(app)
                = [Begin(app) EXCEPT !.timers.animate_delay =
                                        controls.speed_scale]
       /\ (~paused /\ timers.animate > 0) =>
            LET s1 == animate_timer(t1)
            IN /\ s1.frame_count = frame_count
               /\ s1.draw_history = draw_history
               /\ s1.canvas = canvas
               /\ s1.canvas_bg = canvas_bg
               /\ s1.meme_text_id = meme_text_id
               /\ s1.watermark_id = watermark_id
               /\ s1.timers.animate = timers.animate

\* The driver is paused with a tick pending and shapes in the history.
PauseHoldsTicksWitness ==
    /\ paused
    /\ status_label = "Paused"
    /\ timers.animate > 0
    /\ Len(draw_history) >= 2

\* C17 (invalid seed): set_random_seed with an entry that is not an integer
\* leaves the random_seed setting, every other setting and the state of the
\* stream as they were and reports "Invalid seed value"; with an integer S
\* it seeds the stream with S and random_seed becomes S.
InvalidSeedRejected ==
    \A e \in SeedEntries \cup {NotAnInteger} :
        LET s1 == set_random_seed(app, e)
        IN IF e.ok
           THEN /\ s1.rng = SeedState(e.val)
                /\ s1.SETTINGS.random_seed = <<e.val>>
                /\ s1.status_label = "Seed set"
           ELSE /\ s1.rng = rng
                /\ s1.SETTINGS = SETTINGS
                /\ s1.status_label = "Invalid seed value"

\* An entry has just been refused after the seed 4 was set and the stream
\* had moved on: the setting still holds 4 and the stream is where it was.
InvalidSeedRejectedWitness ==
    /\ status_label = "Invalid seed value"
    /\ drawn = <<>>
    /\ SETTINGS.random_seed = <<4>>
    /\ rng # SeedState(4)
    /\ Len(draw_history) >= 2

\* C18 (undo): on an empty history undo_last_shape changes nothing but
\* the status line, which says "No shapes to undo"; on a history that is not
\* empty it removes the last record and no other, deletes from the canvas
\* the primitives and mirror primitives of that record and no other item,
\* and leaves the handles of every other record on the canvas; the overlay
\* handles and the frame counter stay.
UndoRemovesLast ==
    LET s1 == undo_last_shape(app)
        n == Len(draw_history)
        Kept(it) == it.id \notin Handles(draw_history[n])
    IN IF draw_history = <<>>
       THEN s1 = [Begin(app) EXCEPT !.status_label = "No shapes to undo"]
       ELSE /\ s1.draw_history = SubSeq(draw_history, 1, n - 1)
            /\ s1.canvas = SelectSeq(canvas, Kept)
            /\ Handles(draw_history[n]) \cap CanvasIds(s1.canvas) = {}
            /\ \A i \in 1..(n - 1) :
                  Handles(draw_history[i]) \subseteq CanvasIds(s1.canvas)
            /\ s1.status_label = "Last shape undone"
            /\ s1.meme_text_id = meme_text_id
            /\ s1.watermark_id = watermark_id
            /\ s1.frame_count = frame_count

\* Every shape was undone and undo was asked once more.
UndoRemovesLastWitness ==
    /\ status_label = "No shapes to undo"
    /\ drawn = <<>>
    /\ draw_history = <<>>
    /\ frame_count > 0

\* C19 (replay and clear): a clear while a replay is in progress leaves the
\* snapshot of every pending replay step as it was, and the replay step
\* that runs after the clear generates no shape and schedules no further
\* step.
ReplayStopsAfterClear ==
    \A k \in 1..Len(timers.replay) :
        LET cleared == clear_canvas(Begin(app))
            s1 == replay_timer(cleared, k)
        IN /\ cleared.timers.replay = timers.replay
           /\ s1.drawn = <<>>
           /\ s1.draw_history = <<>>
           /\ Len(s1.timers.replay) < Len(timers.replay)

\* The pending replay steps run one after the other until none is left:
\* how many ran, and the delays they were scheduled with.
RECURSIVE replay_steps(_)
replay_steps(s) ==
    IF s.timers.replay = <<>> THEN 0 ELSE 1 + replay_steps(replay_timer(s, 1))

RECURSIVE replay_delays(_)
replay_delays(s) ==
    IF s.timers.replay = <<>> THEN {}
    ELSE {s.timers.replay[1].delay} \cup replay_delays(replay_timer(s, 1))

\* C20 (replay terminates): replay_history on a history of N >= 1 records,
\* no other replay pending, empties the history, removes every shape from
\* the canvas and sets the frame counter to 0 before it generates its first
\* shape; it generates N shapes in all, one per step, each step scheduled
\* REPLAY_DELAY ms after the one before and not at the animation interval;
\* the step after the N-th reports "Replay complete" and schedules nothing.
ReplayTerminates ==
    (draw_history # <<>> /\ timers.replay = <<>>) =>
        LET N == Len(draw_history)
            s0 == replay_history(app)
            s1 == replay_to_end(s0)
        IN /\ Len(s0.draw_history) = 1
           /\ s0.frame_count = 0
           /\ \A i \in 1..Len(s0.canvas) :
                 IsShape(s0.canvas[i]) =>
                    s0.canvas[i].id \in Handles(s0.draw_history[1])
           /\ Len(s0.timers.replay) = 1
           /\ replay_steps(s0) = N
           /\ replay_delays(s0) = {REPLAY_DELAY}
           /\ Len(s1.draw_history) = N
           /\ s1.frame_count = 0
           /\ s1.status_label = "Replay complete"
           /\ s1.timers.replay = <<>>

\* C21 (chaos step): a running tick with chaos mode enabled sets the
\* background to the next colour of the stream exactly when the frame
\* counter it leaves, the auto-clear step included, is a multiple of
\* CHAOS_PERIOD; a tick with chaos mode disabled leaves the background as it
\* was; and the tick with chaos differs from the same tick without chaos in
\* the background and the stream only: settings, palette, history and
\* canvas are those of the tick without chaos.
ChaosStep ==
    (~paused /\ timers.animate > 0) =>
        LET s1 == animate_timer(app)
            off == animate_timer([app EXCEPT !.controls.chaos_mode = FALSE])
            on == animate_timer([app EXCEPT !.controls.chaos_mode = TRUE])
            c == randint(off.rng, 0, COLOR_MAX)
        IN /\ off.canvas_bg = canvas_bg
           /\ s1 = (IF controls.chaos_mode THEN on ELSE off)
           /\ on = [off EXCEPT
                      !.controls.chaos_mode = TRUE,
                      !.canvas_bg =
                          IF off.exc = "" /\ off.frame_count % CHAOS_PERIOD = 0
                          THEN c.val ELSE @,
                      !.rng =
                          IF off.exc = "" /\ off.frame_count % CHAOS_PERIOD = 0
                          THEN c.rng ELSE @]

\* Tick number CHAOS_PERIOD since the last clear has just run with chaos
\* mode enabled and recoloured the background.
ChaosStepWitness ==
    /\ controls.chaos_mode
    /\ frame_count = CHAOS_PERIOD
    /\ drawn # <<>>
    /\ canvas_bg # 0

\* C22 (watermark reconciliation): at the end of a running tick that
\* completes, if the watermark flag of the settings is set the watermark
\* handle is not None and is the id of a canvas item that shows the
\* watermark text, and if the flag is clear the handle is None and no
\* watermark is on the canvas.
WatermarkReconciled ==
    (~paused /\ timers.animate > 0) =>
        LET s1 == animate_timer(app)
        IN s1.exc = "" =>
            IF s1.SETTINGS.watermark_enabled
            THEN /\ s1.watermark_id # None
                 /\ s1.watermark_id \in CanvasIds(s1.canvas)
                 /\ item_of(s1, s1.watermark_id).text
                        = s1.SETTINGS.watermark_text
            ELSE /\ s1.watermark_id = None
                 /\ Watermarks(s1) = <<>>

\* C27 (overlay handles are never stale): a meme_text_id or watermark_id
\* that is not None is the id of an item on the canvas.
OverlayHandlesLive ==
    /\ meme_text_id # None => meme_text_id \in CanvasIds(canvas)
    /\ watermark_id # None => watermark_id \in CanvasIds(canvas)

\* C23 (the frame counter counts ticks): a running tick adds exactly 1 to
\* the frame counter, in either drawing mode and whatever the number of
\* shapes it draws, and then sets it to 0 if it auto-clears; a paused tick,
\* undo, a replay step, an update of the meme text, the synchronisation of
\* the settings and a pause toggle leave the counter as it is; a manual
\* clear and the start of a replay set it to 0.
FrameCountsTicks ==
    /\ timers.animate > 0 =>
        LET s1 == animate_timer(app)
        IN s1.frame_count =
              (IF paused THEN frame_count
               ELSE IF s1.exc = ""
                       /\ frame_count + 1 >= SETTINGS.auto_clear_threshold
                    THEN 0
                    ELSE frame_count + 1)
    /\ undo_last_shape(app).frame_count = frame_count
    /\ \A k \in 1..Len(timers.replay) :
          replay_timer(app, k).frame_count = frame_count
    /\ \A text \in {"", "meme"} : add_meme_text(app, text).frame_count = frame_count
    /\ timers.sync > 0 => sync_timer(app).frame_count = frame_count
    /\ toggle_pause(app).frame_count = frame_count
    /\ clear_canvas(Begin(app)).frame_count = 0
    /\ replay_history(app).frame_count
          = (IF draw_history = <<>> THEN frame_count ELSE 0)

\* A tick in burst mode has drawn several shapes and counted one frame.
FrameCountsTicksWitness ==
    /\ controls.drawing_mode = "burst"
    /\ Len(drawn) >= 2
    /\ frame_count = 2
    /\ Len(draw_history) > 2

\* C24 (self-rescheduling): exactly one tick is pending at any time; a
\* tick that completes, running or paused, leaves one tick pending, with
\* the delay the speed slider shows when the tick ends; and the tick after
\* an un-pause draws.
SelfRescheduling ==
    /\ timers.animate = 1
    /\ LET s1 == animate_timer(app)
       IN s1.exc = "" =>
            /\ s1.timers.animate = 1
            /\ s1.timers.animate_delay = controls.speed_scale
    /\ paused =>
          LET s2 == animate_timer(toggle_pause(animate_timer(app)))
          IN /\ s2.frame_count = frame_count + 1 \/ s2.frame_count = 0
             /\ s2.exc = "" => s2.drawn # <<>> /\ s2.timers.animate = 1

\* C25 (arc geometry): every arc drawn has the bounding box from the
\* anchor (x, y) to (x + size, y + size), a start angle s with 0 <= s < 360
\* and a sweep e with 30 <= e < 180.
ArcWithinBounds ==
    \A i \in 1..Len(drawn) :
        drawn[i].type = "arc" =>
            /\ drawn[i].coords = <<drawn[i].x, drawn[i].y,
                                   drawn[i].x + drawn[i].size,
                                   drawn[i].y + drawn[i].size>>
            /\ 0 <= drawn[i].start /\ drawn[i].start < 360
            /\ 30 <= drawn[i].extent /\ drawn[i].extent < 180

\* C26 (sole timer-driven actor): a timer callback other than the tick,
\* that is a pending replay step or the pending synchronisation of the
\* settings, leaves the canvas, the draw history and the settings record
\* as they are.
OnlyTicksMutate ==
    /\ \A k \in 1..Len(timers.replay) :
          LET s1 == replay_timer(app, k)
          IN /\ s1.canvas = canvas
             /\ s1.draw_history = draw_history
             /\ s1.SETTINGS = SETTINGS
    /\ timers.sync > 0 =>
          LET s2 == sync_timer(app)
          IN /\ s2.canvas = canvas
             /\ s2.draw_history = draw_history
             /\ s2.SETTINGS = SETTINGS

\* undo_last_shape, again and again until the history is empty.
RECURSIVE undo_all(_)
undo_all(s) ==
    IF s.draw_history = <<>> THEN s ELSE undo_all(undo_last_shape(s))

\* The records of a history that hold the handle.
Holders(h, id) == {j \in 1..Len(h) : id \in Handles(h[j])}

\* C28 (no orphan primitives): every canvas item that is not a grid line
\* and not the item of meme_text_id or watermark_id is held by exactly one
\* record of the draw history, as an item or as a mirror item, and once in
\* it; no handle is held by two records; so undoing every record, or one
\* clear, leaves no primitive of a shape on the canvas.
NoOrphanPrimitives ==
    /\ \A i \in 1..Len(canvas) :
          (canvas[i].tag # "grid"
           /\ canvas[i].id \notin {meme_text_id, watermark_id}) =>
              Cardinality(Holders(draw_history, canvas[i].id)) = 1
    /\ \A j \in 1..Len(draw_history) :
          /\ Range(draw_history[j].items)
                \cap Range(draw_history[j].mirror_items) = {}
          /\ Cardinality(Handles(draw_history[j]))
                = Len(draw_history[j].items)
                    + Len(draw_history[j].mirror_items)
          /\ \A k \in 1..Len(draw_history) :
                j # k => Handles(draw_history[j])
                            \cap Handles(draw_history[k]) = {}
    /\ SelectSeq(undo_all(app).canvas, IsShape) = <<>>
    /\ SelectSeq(clear_canvas(Begin(app)).canvas, IsShape) = <<>>

\* A mirrored shape and the meme text are on the canvas after an undo.
NoOrphanPrimitivesWitness ==
    /\ status_label = "Last shape undone"
    /\ meme_text_id \in CanvasIds(canvas)
    /\ \E j \in 1..Len(draw_history) : draw_history[j].mirror_items # <<>>

\* C29 (counter bound at tick boundaries): after a running tick that read
\* the auto-clear threshold T >= 1, the frame counter is at least 0 and
\* below T, whatever the counter was before the tick; with T = 1 the
\* history is empty after the tick.
CounterBelowThreshold ==
    LET T == SETTINGS.auto_clear_threshold
    IN (~paused /\ timers.animate > 0 /\ T >= 1) =>
          LET s1 == animate_timer(app)
          IN /\ 0 <= s1.frame_count
             /\ s1.frame_count < T
             /\ T = 1 => s1.draw_history = <<>>

\* The replay_next calls of a replay run until none is pending, with the
\* pending tick of the driver run after each of them.
RECURSIVE replay_among_ticks(_)
replay_among_ticks(s) ==
    IF s.timers.replay = <<>> THEN s
    ELSE LET s1 == replay_timer(s, 1)
         IN replay_among_ticks(IF s1.timers.animate > 0
                               THEN [animate_timer(s1) EXCEPT
                                        !.exc = s1.exc, !.drawn = s1.drawn]
                               ELSE s1)

\* C30 (replay while paused): replay_history on a history of N >= 1 records
\* while the driver is paused, no other replay pending and no command
\* given, generates N shapes, the paused ticks between its steps changing
\* nothing, and when it reports "Replay complete" the history holds N
\* records and the frame counter is 0.
ReplayWhilePaused ==
    (paused /\ draw_history # <<>> /\ timers.replay = <<>>) =>
        LET N == Len(draw_history)
            s1 == replay_among_ticks(replay_history(app))
        IN /\ s1.status_label = "Replay complete"
           /\ Len(s1.draw_history) = N
           /\ Len(SelectSeq(s1.canvas, IsShape)) >= N
           /\ s1.frame_count = 0
           /\ s1.paused

====
